---- MODULE Spec2Model ----
(***************************************************************************)
(* Model of pyro/infer/autoguide/effect.py: the effect-handler autoguides  *)
(* AutoMessenger, AutoNormalMessenger and AutoRegressiveMessenger.         *)
(*                                                                         *)
(* Tensors are records [shape, data]: shape is the sequence of axis        *)
(* extents, data maps every index tuple (1-based) to a scalar.  Scalars    *)
(* are exact rationals [n, d, f]; f = "exp" marks a value of the           *)
(* constrained (positive) space, the image of n/d under the bijection.     *)
(***************************************************************************)
EXTENDS Integers, Sequences, FiniteSets, TLC

\* ------------------------------------------------------------------ bounds

\* Largest offset of the initial values an initialization strategy returns.
MaxBase == 1
\* Current (subsampled) extent of the plates of the model.
PlateSize == 2

\* ----------------------------------------------------------------- scalars

Abs(x) == IF x < 0 THEN -x ELSE x

RECURSIVE Gcd(_, _)
Gcd(a, b) == IF b = 0 THEN a ELSE Gcd(b, a % b)

\* The rational n/d in lowest terms, d > 0.
Rat(n, d) ==
    LET g == Gcd(Abs(n), Abs(d))
        s == IF d < 0 THEN -1 ELSE 1
    IN  [n |-> (s * n) \div g, d |-> (s * d) \div g, f |-> "id"]

RAdd(x, y) == Rat(x.n * y.d + y.n * x.d, x.d * y.d)
RMul(x, y) == Rat(x.n * y.n, x.d * y.d)
RDivInt(x, k) == Rat(x.n, x.d * k)
RSub(x, y) == RAdd(x, Rat(-y.n, y.d))
RPositive(x) == x.n > 0

\* ----------------------------------------------------------------- tensors

RECURSIVE Indices(_)
Indices(shape) ==
    IF shape = <<>> THEN {<<>>}
    ELSE {<<i>> \o rest : i \in 1..Head(shape), rest \in Indices(Tail(shape))}

\* Row-major position of an index tuple, from 0.
RECURSIVE Rank(_, _)
Rank(shape, idx) ==
    IF shape = <<>> THEN 0
    ELSE Rank(SubSeq(shape, 1, Len(shape) - 1), SubSeq(idx, 1, Len(idx) - 1))
           * shape[Len(shape)] + (idx[Len(idx)] - 1)

Tensor(shape, f(_)) == [shape |-> shape, data |-> [idx \in Indices(shape) |-> f(idx)]]

\* value.dim()
Dim(value) == Len(value.shape)

\* The 1-based position of the axis a negative torch dim names.
Axis(value, dim) == Dim(value) + dim + 1

RECURSIVE SumAlong(_, _, _, _)
SumAlong(value, idx, pos, j) ==
    IF j = 0 THEN Rat(0, 1)
    ELSE RAdd(SumAlong(value, idx, pos, j - 1), value.data[[idx EXCEPT ![pos] = j]])

\* value.mean(dim, keepdim=True)
Mean(value, dim) ==
    LET pos == Axis(value, dim)
        k == value.shape[pos]
        shape == [value.shape EXCEPT ![pos] = 1]
    IN  Tensor(shape, LAMBDA idx : RDivInt(SumAlong(value, idx, pos, k), k))

\* value.squeeze(0)
Squeeze0(value) ==
    IF Dim(value) > 0 /\ value.shape[1] = 1
    THEN Tensor(Tail(value.shape), LAMBDA idx : value.data[<<1>> \o idx])
    ELSE value

\* A variant that builds a 0-dimensional tensor holding the fill value.
FullScalar(value, fill) == Tensor(<<>>, LAMBDA idx : fill)

\* torch.full_like(value, fill)
FullLike(value, fill) == Tensor(value.shape, LAMBDA idx : fill)

\* value * c
Scale(value, c) == Tensor(value.shape, LAMBDA idx : RMul(value.data[idx], c))

\* pyro.ops.tensor_utils.periodic_repeat(value, size, dim): the axis is
\* tiled with its own period up to `size`; an axis the tensor does not have
\* is an IndexError.
PeriodicRepeatDefined(value, dim) == -Dim(value) <= dim

PeriodicRepeat(value, size, dim) ==
    LET pos == Axis(value, dim)
        period == value.shape[pos]
        shape == [value.shape EXCEPT ![pos] = size]
    IN  Tensor(shape,
               LAMBDA idx : value.data[[idx EXCEPT ![pos] = ((idx[pos] - 1) % period) + 1]])

\* ------------------------------------------------------------------ plates

\* The plates a model or its caller may open (pyro.poutine.runtime.get_plates
\* yields one frame per active plate): "data" is subsampled, "group" is not
\* and its frame carries no full_size attribute.
PlateNames == {"data", "group"}

Frame(name) ==
    IF name = "data"
    THEN [name |-> "data", dim |-> -1, size |-> PlateSize, full_size |-> PlateSize + 1]
    ELSE [name |-> "group", dim |-> -2, size |-> PlateSize]

\* getattr(f, "full_size", f.size)
FullSize(f) == IF "full_size" \in DOMAIN f THEN f.full_size ELSE f.size

\* Python's `f == name` for a plate frame f and a str name: objects of
\* different types, neither of which defines equality with the other.
FrameEqualsName(f, name) == FALSE

\* Python's `f in self._outer_plates`, the snapshot being a tuple of names.
FrameInOuterPlates(f, names) == \E i \in 1..Len(names) : FrameEqualsName(f, names[i])

\* No snapshot: the instance has no _outer_plates attribute.
NoOuterPlates == [present |-> FALSE, names |-> <<>>, owner |-> 0]

\* tuple(f.name for f in get_plates()), taken by the invocation at `depth`.
Snapshot(active, depth) == [present |-> TRUE, names |-> active, owner |-> depth]

\* A variant of the iteration that repeats the value up to the subsample size,
\* not the full size, of the plate.
PlateStepTileToSize(value, event_dim, f, outer, amortized) ==
    IF ~outer.present THEN [err |-> "AttributeError", value |-> value]
    ELSE IF FrameInOuterPlates(f, outer.names) \/ f.name \in amortized
    THEN [err |-> "",
          value |-> IF -Dim(value) <= f.dim - event_dim
                    THEN Mean(value, f.dim - event_dim) ELSE value]
    ELSE IF f.size # FullSize(f)
    THEN IF PeriodicRepeatDefined(value, f.dim - event_dim)
         THEN [err |-> "", value |-> PeriodicRepeat(value, f.size, f.dim - event_dim)]
         ELSE [err |-> "IndexError", value |-> value]
    ELSE [err |-> "", value |-> value]

\* A variant of the iteration that tests for a subsampled plate first, so
\* that tiling takes precedence over averaging.
PlateStepTileFirst(value, event_dim, f, outer, amortized) ==
    IF ~outer.present THEN [err |-> "AttributeError", value |-> value]
    ELSE IF f.size # FullSize(f)
    THEN IF PeriodicRepeatDefined(value, f.dim - event_dim)
         THEN [err |-> "",
               value |-> PeriodicRepeat(value, FullSize(f), f.dim - event_dim)]
         ELSE [err |-> "IndexError", value |-> value]
    ELSE IF FrameInOuterPlates(f, outer.names) \/ f.name \in amortized
    THEN [err |-> "",
          value |-> IF -Dim(value) <= f.dim - event_dim
                    THEN Mean(value, f.dim - event_dim) ELSE value]
    ELSE [err |-> "", value |-> value]

\* A variant of the iteration that tests `f.name in self.amortized_plates`
\* first, so that an amortized plate never reads the snapshot.
PlateStepAmortizedFirst(value, event_dim, f, outer, amortized) ==
    IF f.name \in amortized
    THEN [err |-> "",
          value |-> IF -Dim(value) <= f.dim - event_dim
                    THEN Mean(value, f.dim - event_dim) ELSE value]
    ELSE IF ~outer.present THEN [err |-> "AttributeError", value |-> value]
    ELSE IF FrameInOuterPlates(f, outer.names)
    THEN [err |-> "",
          value |-> IF -Dim(value) <= f.dim - event_dim
                    THEN Mean(value, f.dim - event_dim) ELSE value]
    ELSE IF f.size # FullSize(f)
    THEN IF PeriodicRepeatDefined(value, f.dim - event_dim)
         THEN [err |-> "",
               value |-> PeriodicRepeat(value, FullSize(f), f.dim - event_dim)]
         ELSE [err |-> "IndexError", value |-> value]
    ELSE [err |-> "", value |-> value]

\* One iteration of the loop over get_plates() in _remove_outer_plates.
PlateStep(value, event_dim, f, outer, amortized) ==
    LET full_size == FullSize(f)
        dim == f.dim - event_dim
    IN  IF ~outer.present THEN [err |-> "AttributeError", value |-> value]
        ELSE IF FrameInOuterPlates(f, outer.names) \/ f.name \in amortized
        THEN [err |-> "",
              value |-> IF -Dim(value) <= dim THEN Mean(value, dim) ELSE value]
        ELSE IF f.size # full_size
        THEN IF PeriodicRepeatDefined(value, dim)
             THEN [err |-> "", value |-> PeriodicRepeat(value, full_size, dim)]
             ELSE [err |-> "IndexError", value |-> value]
        ELSE [err |-> "", value |-> value]

\* The loop over get_plates(): the values before the first plate and after
\* each processed plate, and the error that ended the loop early, if any.
\* PlateLoopOn continues the loop with the outcome r of one iteration.
RECURSIVE PlateLoop(_, _, _, _, _)
RECURSIVE PlateLoopOn(_, _, _, _, _, _)
PlateLoopOn(r, steps, event_dim, active, outer, amortized) ==
    IF r.err # "" THEN [err |-> r.err, steps |-> steps]
    ELSE PlateLoop(Append(steps, r.value), event_dim, Tail(active), outer, amortized)

PlateLoop(steps, event_dim, active, outer, amortized) ==
    IF active = <<>> THEN [err |-> "", steps |-> steps]
    ELSE PlateLoopOn(PlateStep(steps[Len(steps)], event_dim, Frame(Head(active)),
                               outer, amortized),
                     steps, event_dim, active, outer, amortized)

\* A variant that squeezes the leading axis once, without the loop.
SqueezeOnce(value, count) == IF count <= 0 THEN value ELSE Squeeze0(value)

\* for dim in range(value.dim() - event_dim): value = value.squeeze(0)
RECURSIVE SqueezeLoop(_, _)
SqueezeLoop(value, count) ==
    IF count <= 0 THEN value ELSE SqueezeLoop(Squeeze0(value), count - 1)

\* The second loop of _remove_outer_plates and its return, r being the
\* outcome of the first loop.
Squeezed(r, event_dim) ==
    IF r.err # ""
    THEN [err |-> r.err, steps |-> r.steps, value |-> r.steps[1]]
    ELSE [err |-> "", steps |-> r.steps,
          value |-> SqueezeLoop(r.steps[Len(r.steps)],
                                Dim(r.steps[Len(r.steps)]) - event_dim)]

\* AutoMessenger._remove_outer_plates(value, event_dim) under the plates
\* `active`, the snapshot `outer` and the configured amortized plates.
RemoveOuterPlates(value, event_dim, active, outer, amortized) ==
    Squeezed(PlateLoop(<<value>>, event_dim, active, outer, amortized), event_dim)

\* ------------------------------------------------------- sites and priors

\* The sample sites of the model and the support and event shape of their
\* priors: "a" is a positive scalar, "b" a real vector, "c" is discrete.
SiteNames == {"a", "b", "c"}

Prior(name) ==
    IF name = "a" THEN [support |-> "positive", event_shape |-> <<>>]
    ELSE IF name = "b" THEN [support |-> "real_vector", event_shape |-> <<2>>]
    ELSE [support |-> "boolean", event_shape |-> <<>>]

\* torch.distributions.biject_to(support): the bijection from unconstrained
\* space onto the support; none is registered for a discrete support.
BijectTo(support) ==
    IF support = "positive" THEN [defined |-> TRUE, event_dim |-> 0, f |-> "exp"]
    ELSE IF support = "real_vector" THEN [defined |-> TRUE, event_dim |-> 1, f |-> "id"]
    ELSE [defined |-> FALSE, event_dim |-> 0, f |-> "id"]

\* transform(value) and transform.inv(value), elementwise.
Forward(transform, value) ==
    Tensor(value.shape, LAMBDA idx : [value.data[idx] EXCEPT !.f = transform.f])

Inverse(transform, value) ==
    Tensor(value.shape, LAMBDA idx : [value.data[idx] EXCEPT !.f = "id"])

\* A tensor that stands for "no tensor" in records that always carry one.
NoTensor == [shape |-> <<0>>, data |-> <<>>]

\* The batch shapes the prior of a site can have.  The last `ninner` active
\* plates were opened by the running model and have broadcast the prior to
\* their size; a plate opened around the guide shows in the prior only if
\* the prior depends on values sampled under it (`shown`).  Every other axis
\* up to the leftmost showing plate has extent 1.
Depths(shown) == {-Frame(p).dim : p \in shown}

ShapeOf(shown) ==
    LET depths == Depths(shown)
        rank == IF depths = {} THEN 0 ELSE CHOOSE r \in depths : \A q \in depths : q <= r
    IN  [k \in 1..rank |->
            IF rank - k + 1 \in depths
            THEN Frame(CHOOSE p \in shown : -Frame(p).dim = rank - k + 1).size
            ELSE 1]

BatchShapes(active, ninner) ==
    LET inner == {active[i] : i \in (Len(active) - ninner + 1)..Len(active)}
        outer == {active[i] : i \in 1..(Len(active) - ninner)}
    IN  {ShapeOf(inner \cup some) : some \in SUBSET outer}

\* The constrained initial values init_loc_fn({"name": name, "fn": prior})
\* can return: a point of the support for every coordinate of the prior.
InitValues(name, active, ninner) ==
    LET transform == BijectTo(Prior(name).support)
    IN  {Forward(transform,
                 Tensor(bs \o Prior(name).event_shape,
                        LAMBDA idx : Rat(base + Rank(bs \o Prior(name).event_shape, idx)
                                                * Rank(bs \o Prior(name).event_shape, idx), 1))) :
           bs \in BatchShapes(active, ninner), base \in 0..MaxBase}

\* ------------------------------------------------------------------- state

VARIABLES
    kind,              \* class of the guide instance: "none" before construction
    amortized_plates,  \* self.amortized_plates
    init_scale,        \* self._init_scale
    computing_median,  \* self._computing_median: "unset", "False" or "True"
    outer_plates,      \* self._outer_plates, NoOuterPlates when the attribute is absent
    locs,              \* self.locs: site name -> tensor
    scales,            \* self.scales: site name -> tensor
    plates,            \* names of the active plates, outermost first (get_plates())
    stack,             \* the running invocations of the guide, outermost first
    exc,               \* the exception that is propagating, "" when none
    nested,            \* TRUE while exc has left a nested invocation of the guide
    outcome,           \* how the operation that has just ended ended
    model,             \* the generative model the guide is run against
    created,           \* history: the context in which each site's parameters were made
    medianOut          \* history: the first value median() returned for each site

vars == <<kind, amortized_plates, init_scale, computing_median, outer_plates, locs,
          scales, plates, stack, exc, nested, outcome, model, created, medianOut>>

\* A generative model is described by the sites it samples, the plates it or
\* its caller opens, and how deep it invokes the guide that is running it
\* (nesting 0: never; a model that re-invokes the guide does so under a
\* condition that ends the recursion).
\*
\* The models whose whole life cycle is followed:
Models ==
    {[sites |-> {"a", "b", "c"}, plates |-> {}, nesting |-> 0],
     [sites |-> {"a"}, plates |-> {"data"}, nesting |-> 1],
     [sites |-> {"a"}, plates |-> {}, nesting |-> 2]}

\* The models whose sites are followed through their first visit, under
\* every arrangement of plates:
PlateModels ==
    {[sites |-> {"a"}, plates |-> PlateNames, nesting |-> 0],
     [sites |-> {"b"}, plates |-> PlateNames, nesting |-> 0]}

\* The init_scale arguments tried: floats 1/4, 0, -1/4 and NaN, and the int 1.
NoScale == [type |-> "unset", nan |-> FALSE, v |-> Rat(0, 1)]

InitScaleInputs ==
    {[type |-> "float", nan |-> FALSE, v |-> Rat(1, 4)],
     [type |-> "float", nan |-> FALSE, v |-> Rat(0, 1)],
     [type |-> "float", nan |-> FALSE, v |-> Rat(-1, 4)],
     [type |-> "float", nan |-> TRUE, v |-> Rat(0, 1)],
     [type |-> "int", nan |-> FALSE, v |-> Rat(1, 1)]}

\* isinstance(init_scale, float)
IsFloat(s) == s.type = "float"

\* init_scale > 0: every comparison with NaN is false.
GreaterThanZero(s) == ~s.nan /\ RPositive(s.v)

\* A variant of the validation written as `init_scale <= 0`, which NaN passes.
InitScaleRejectedIfNotPositive(s) == ~IsFloat(s) \/ (~s.nan /\ ~RPositive(s.v))

\* not isinstance(init_scale, float) or not (init_scale > 0)
InitScaleRejected(s) == ~IsFloat(s) \/ ~GreaterThanZero(s)

Empty == [n \in {} |-> NoTensor]

\* An outcome is observed in the state the operation ends in; `again` tells
\* that median() had returned a value for one of the sites before.
\* `reentered` tells that the invocation that ended had been re-entered,
\* `arg` is the init_scale a constructor was given, and `input` the tensor a
\* direct call of _remove_outer_plates was given; `order` and `packed` are the
\* insertion order of a returned mapping and the tuple `call` made of it, and
\* `site` is the site get_posterior was called for and `first` tells that the
\* site had no stored parameters at that call.
NoOutcome ==
    [op |-> "", depth |-> 0, status |-> "", err |-> "", result |-> Empty,
     value |-> NoTensor, again |-> FALSE, reentered |-> FALSE, arg |-> NoScale,
     input |-> NoTensor, order |-> <<>>, packed |-> <<>>, site |-> "",
     first |-> FALSE]

Ended(op, depth, err, result, value) ==
    [op |-> op, depth |-> depth, status |-> IF err = "" THEN "returned" ELSE "raised",
     err |-> err, result |-> result, value |-> value,
     again |-> (op = "median" /\ err = "" /\ DOMAIN result \cap DOMAIN medianOut # {}),
     reentered |-> FALSE, arg |-> NoScale, input |-> NoTensor, order |-> <<>>,
     packed |-> <<>>, site |-> "", first |-> FALSE]

Top == stack[Len(stack)]

Init ==
    /\ kind = "none"
    /\ amortized_plates = {}
    /\ init_scale = NoScale
    /\ computing_median = "unset"
    /\ outer_plates = NoOuterPlates
    /\ locs = Empty
    /\ scales = Empty
    /\ plates = <<>>
    /\ stack = <<>>
    /\ exc = ""
    /\ nested = FALSE
    /\ outcome = NoOutcome
    /\ model \in Models
    /\ created = Empty
    /\ medianOut = Empty

\* ------------------------------------------------------------ construction

\* AutoNormalMessenger.__init__ / AutoRegressiveMessenger.__init__
Construct(cls, scale, amortized) ==
    /\ kind = "none"
    /\ amortized \subseteq model.plates
    /\ IF InitScaleRejected(scale)
       THEN /\ outcome' = [Ended("__init__", 0, "ValueError", Empty, NoTensor)
                               EXCEPT !.arg = scale]
            /\ UNCHANGED <<kind, amortized_plates, init_scale, computing_median>>
       ELSE /\ kind' = cls
            /\ amortized_plates' = amortized
            /\ init_scale' = scale
            /\ computing_median' = IF cls = "normal" THEN "False" ELSE "unset"
            /\ outcome' = [Ended("__init__", 0, "", Empty, NoTensor) EXCEPT !.arg = scale]
    /\ UNCHANGED <<outer_plates, locs, scales, plates, stack, exc, nested, model,
                   created, medianOut>>

\* --------------------------------------------------------------- parameters

\* transform.domain.event_dim for the prior of site `name`
EventDim(name) == BijectTo(Prior(name).support).event_dim

\* transform.inv(constrained)
Unconstrained(name, constrained) == Inverse(BijectTo(Prior(name).support), constrained)

\* self._remove_outer_plates(unconstrained, event_dim)
ReducedInit(name, constrained) ==
    RemoveOuterPlates(Unconstrained(name, constrained), EventDim(name), plates,
                      outer_plates, amortized_plates)

\* What the history keeps of an initialization whose plate reduction gave r.
Context(name, constrained, r) ==
    [active |-> plates, outer |-> outer_plates, depth |-> Len(stack),
     event_dim |-> EventDim(name), unconstrained |-> Unconstrained(name, constrained),
     steps |-> r.steps, reduced |-> r.value]

Params(err, loc, scale, newlocs, newscales, newcreated) ==
    [err |-> err, loc |-> loc, scale |-> scale, locs |-> newlocs, scales |-> newscales,
     created |-> newcreated]

\* return loc, scale (the stored pair)
Stored(name) == Params("", locs[name], scales[name], locs, scales, created)

Failed(err) == Params(err, NoTensor, NoTensor, locs, scales, created)

\* init_scale = torch.full_like(init_loc, self._init_scale); the two
\* deep_setattr calls; return self._get_params(name, prior)
Created(name, init_loc, context) ==
    Params("", init_loc, FullLike(init_loc, init_scale.v), (name :> init_loc) @@ locs,
           (name :> FullLike(init_loc, init_scale.v)) @@ scales,
           (name :> context) @@ created)

\* A variant of the lookup that never finds the stored pair.
ParamsNeverFound(name) == FALSE

\* deep_getattr(self.locs, name) and deep_getattr(self.scales, name) succeed
HasParams(name) == name \in DOMAIN locs /\ name \in DOMAIN scales

\* The initialization of AutoNormalMessenger._get_params, r being the outcome
\* of the plate reduction: init_loc is the reduced value.
AutoNormalInitialize(name, constrained, r) ==
    IF r.err # "" THEN Failed(r.err)
    ELSE Created(name, r.value, Context(name, constrained, r))

\* A variant of _get_params that registers locs.<name> before it computes the
\* initial value.
AutoNormalGetParamsLocFirst(name, init) ==
    IF HasParams(name) THEN Stored(name)
    ELSE IF init.fail
    THEN Params("InitError", NoTensor, NoTensor, (name :> NoTensor) @@ locs, scales,
                created)
    ELSE AutoNormalInitialize(name, init.value, ReducedInit(name, init.value))

\* AutoNormalMessenger._get_params(name, prior); init is what init_loc_fn does.
AutoNormalGetParams(name, init) ==
    IF HasParams(name) THEN Stored(name)
    ELSE IF init.fail THEN Failed("InitError")
    ELSE AutoNormalInitialize(name, init.value, ReducedInit(name, init.value))

\* A variant of the initialization that multiplies by init_scale.
AutoRegressiveInitializeByScale(name, constrained, r) ==
    IF r.err # "" THEN Failed(r.err)
    ELSE Created(name, Scale(r.value, init_scale.v), Context(name, constrained, r))

\* The initialization of AutoRegressiveMessenger._get_params:
\* init_loc = init_loc * (1 - self._init_scale)
AutoRegressiveInitialize(name, constrained, r) ==
    IF r.err # "" THEN Failed(r.err)
    ELSE Created(name, Scale(r.value, RSub(Rat(1, 1), init_scale.v)),
                 Context(name, constrained, r))

\* AutoRegressiveMessenger._get_params(name, prior)
AutoRegressiveGetParams(name, init) ==
    IF HasParams(name) THEN Stored(name)
    ELSE IF init.fail THEN Failed("InitError")
    ELSE AutoRegressiveInitialize(name, init.value, ReducedInit(name, init.value))

\* ---------------------------------------------------------------- posteriors

Posterior(p, entry) ==
    [err |-> p.err, locs |-> p.locs, scales |-> p.scales, created |-> p.created,
     entry |-> entry]

\* What the guide substitutes at a site: a sample of a distribution built on
\* the pair (loc, scale), its value left open, or a point.
Sampled(name, loc, scale) ==
    [site |-> name, kind |-> "dist", loc |-> loc, scale |-> scale, value |-> NoTensor]

Point(name, value) ==
    [site |-> name, kind |-> "point", loc |-> NoTensor, scale |-> NoTensor,
     value |-> value]

\* No bijection for the support: biject_to raises.
Unsupported(name) ==
    Posterior(Failed("NotImplementedError"), Sampled(name, NoTensor, NoTensor))

\* The distribution get_posterior builds on the pair _get_params returned.
Distribution(name, p) == Posterior(p, Sampled(name, p.loc, p.scale))

\* A variant of the median that returns loc without applying the transform.
MedianPointUntransformed(name, p) == Posterior(p, Point(name, p.loc))

\* return transform(loc), p being what _get_params returned
MedianPoint(name, p) ==
    Posterior(p, Point(name, Forward(BijectTo(Prior(name).support), p.loc)))

\* A variant of the median that is read-only: for a site without stored
\* parameters it returns the transformed initial value and stores nothing.
MedianOfInit(name, r) ==
    IF r.err # "" THEN Posterior(Failed(r.err), Point(name, NoTensor))
    ELSE Posterior(Params("", r.value, NoTensor, locs, scales, created),
                   Point(name, Forward(BijectTo(Prior(name).support), r.value)))

GetPosteriorMedianReadOnly(name, init) ==
    IF ~BijectTo(Prior(name).support).defined THEN Unsupported(name)
    ELSE IF HasParams(name) THEN MedianPoint(name, Stored(name))
    ELSE IF init.fail THEN Posterior(Failed("InitError"), Point(name, NoTensor))
    ELSE MedianOfInit(name, ReducedInit(name, init.value))

\* AutoNormalMessenger._get_posterior_median(name, prior)
GetPosteriorMedian(name, init) ==
    IF ~BijectTo(Prior(name).support).defined
    THEN Unsupported(name)
    ELSE MedianPoint(name, AutoNormalGetParams(name, init))

\* AutoNormalMessenger.get_posterior(name, prior)
AutoNormalGetPosterior(name, init) ==
    IF computing_median = "True" THEN GetPosteriorMedian(name, init)
    ELSE IF ~BijectTo(Prior(name).support).defined
    THEN Unsupported(name)
    ELSE Distribution(name, AutoNormalGetParams(name, init))

\* AutoRegressiveMessenger.get_posterior(name, prior)
AutoRegressiveGetPosterior(name, init) ==
    IF ~BijectTo(Prior(name).support).defined
    THEN Unsupported(name)
    ELSE Distribution(name, AutoRegressiveGetParams(name, init))

\* get_posterior of the class of the instance
GetPosterior(name, init) ==
    IF kind = "normal" THEN AutoNormalGetPosterior(name, init)
    ELSE AutoRegressiveGetPosterior(name, init)

\* ------------------------------------------------------------------ actions

\* The caller (no invocation running) or the running model opens a plate.
EnterPlate(p) ==
    /\ kind # "none"
    /\ exc = ""
    /\ p \in model.plates
    /\ \A i \in 1..Len(plates) : plates[i] # p /\ Frame(plates[i]).dim # Frame(p).dim
    /\ plates' = Append(plates, p)
    /\ stack' = IF stack = <<>> THEN stack
                ELSE [stack EXCEPT ![Len(stack)].nplates = @ + 1]
    /\ outcome' = NoOutcome
    /\ UNCHANGED <<kind, amortized_plates, init_scale, computing_median, outer_plates,
                   locs, scales, exc, nested, model, created, medianOut>>

\* The innermost plate of the caller or of the running model is closed.
ExitPlate ==
    /\ exc = ""
    /\ plates # <<>>
    /\ stack # <<>> => Top.nplates > 0
    /\ plates' = SubSeq(plates, 1, Len(plates) - 1)
    /\ stack' = IF stack = <<>> THEN stack
                ELSE [stack EXCEPT ![Len(stack)].nplates = @ - 1]
    /\ outcome' = NoOutcome
    /\ UNCHANGED <<kind, amortized_plates, init_scale, computing_median, outer_plates,
                   locs, scales, exc, nested, model, created, medianOut>>

\* A running invocation: the operation, the values substituted so far, the
\* plates its model has opened, and whether its model has invoked the guide.
\* `order` lists the sites in the order the model visited them: the insertion
\* order of the mapping the invocation returns.
NewFrame(op) ==
    [op |-> op, trace |-> Empty, order |-> <<>>, nplates |-> 0, reentered |-> FALSE]

Entered(op) ==
    Append(IF stack = <<>> THEN stack ELSE [stack EXCEPT ![Len(stack)].reentered = TRUE],
           NewFrame(op))

\* AutoMessenger.__call__ up to the start of the model run; from the caller
\* or, re-entrantly, from the model the guide is running.
Call ==
    /\ kind # "none"
    /\ exc = ""
    /\ Len(stack) <= model.nesting
    /\ outer_plates' = Snapshot(plates, Len(stack) + 1)
    /\ stack' = Entered("call")
    /\ outcome' = NoOutcome
    /\ UNCHANGED <<kind, amortized_plates, init_scale, computing_median, locs, scales,
                   plates, exc, nested, model, created, medianOut>>

\* AutoMessenger.call up to the start of the model run: it invokes
\* self(*args, **kwargs), that is __call__.
CallPacked ==
    /\ kind # "none"
    /\ exc = ""
    /\ Len(stack) <= model.nesting
    /\ outer_plates' = Snapshot(plates, Len(stack) + 1)
    /\ stack' = Entered("call_packed")
    /\ outcome' = NoOutcome
    /\ UNCHANGED <<kind, amortized_plates, init_scale, computing_median, locs, scales,
                   plates, exc, nested, model, created, medianOut>>

Median ==
    /\ kind = "normal"
    /\ exc = ""
    /\ Len(stack) <= model.nesting
    /\ computing_median' = "True"
    /\ outer_plates' = Snapshot(plates, Len(stack) + 1)
    /\ stack' = Entered("median")
    /\ outcome' = NoOutcome
    /\ UNCHANGED <<kind, amortized_plates, init_scale, locs, scales, plates, exc,
                   nested, model, created, medianOut>>

\* The value get_posterior returned is substituted at the site, or the error
\* it raised starts to propagate.
Substitute(name, r) ==
    /\ locs' = r.locs
    /\ scales' = r.scales
    /\ created' = r.created
    /\ IF r.err # ""
       THEN /\ exc' = r.err
            /\ stack' = stack
            /\ outcome' = [Ended("get_posterior", Len(stack), r.err, Empty, NoTensor)
                              EXCEPT !.site = name]
       ELSE /\ exc' = exc
            /\ stack' = [stack EXCEPT ![Len(stack)].trace = (name :> r.entry) @@ @,
                                      ![Len(stack)].order = Append(@, name)]
            /\ outcome' = [Ended("get_posterior", Len(stack), "", Empty, NoTensor)
                              EXCEPT !.site = name, !.first = ~HasParams(name)]

\* The running model samples site `name`: the guide's get_posterior runs.
Sample(name, init) ==
    /\ stack # <<>>
    /\ exc = ""
    /\ name \in model.sites
    /\ name \notin DOMAIN Top.trace
    /\ init.value \in InitValues(name, plates, Top.nplates)
    /\ Substitute(name, GetPosterior(name, init))
    /\ nested' = FALSE
    /\ UNCHANGED <<kind, amortized_plates, init_scale, computing_median, outer_plates,
                   plates, model, medianOut>>

\* The running model itself raises.
ModelRaise ==
    /\ stack # <<>>
    /\ exc = ""
    /\ exc' = "ModelError"
    /\ nested' = FALSE
    /\ outcome' = NoOutcome
    /\ UNCHANGED <<kind, amortized_plates, init_scale, computing_median, outer_plates,
                   locs, scales, plates, stack, model, created, medianOut>>

\* The running model catches the exception a nested invocation ended with.
Catch ==
    /\ stack # <<>>
    /\ exc # ""
    /\ nested
    /\ exc' = ""
    /\ nested' = FALSE
    /\ outcome' = NoOutcome
    /\ UNCHANGED <<kind, amortized_plates, init_scale, computing_median, outer_plates,
                   locs, scales, plates, stack, model, created, medianOut>>

\* A variant of the cleanup that runs only when the model run returned.
DelOuterPlatesOnSuccess(outer, err) ==
    IF err # "" THEN [err |-> "", outer |-> outer]
    ELSE IF outer.present THEN [err |-> "", outer |-> NoOuterPlates]
    ELSE [err |-> "AttributeError", outer |-> outer]

\* A variant of the cleanup that tolerates a snapshot that is already gone.
DelOuterPlatesIfPresent(outer, err) == [err |-> "", outer |-> NoOuterPlates]

\* finally: del self._outer_plates, run whether the model run returned
\* (err = "") or raised err.
DelOuterPlates(outer, err) ==
    IF outer.present THEN [err |-> "", outer |-> NoOuterPlates]
    ELSE [err |-> "AttributeError", outer |-> outer]

\* A variant of median() that resets the flag only if the invocation returned:
\* the flag stays as it is.
MedianFlagKept(op, flag) == flag

\* finally: self._computing_median = False, when the invocation is median()
MedianFinally(op, flag) == IF op = "median" THEN "False" ELSE flag

\* Python's `x < y` for two site names (str): the names of the modelled
\* programs are single letters, ordered by code point.
CodePoint(name) == IF name = "a" THEN 97 ELSE IF name = "b" THEN 98 ELSE 99

NameLess(x, y) == CodePoint(x) < CodePoint(y)

\* result.items(): the (name, value) pairs in insertion order
Items(order, trace) == [i \in 1..Len(order) |-> <<order[i], trace[order[i]]>>]

\* sorted(items): names are unique, so the pairs are ordered by name alone.
RECURSIVE InsertItem(_, _)
InsertItem(item, sorted) ==
    IF sorted = <<>> THEN <<item>>
    ELSE IF NameLess(item[1], Head(sorted)[1]) THEN <<item>> \o sorted
    ELSE <<Head(sorted)>> \o InsertItem(item, Tail(sorted))

RECURSIVE SortedByName(_)
SortedByName(items) ==
    IF items = <<>> THEN <<>>
    ELSE InsertItem(items[Len(items)], SortedByName(SubSeq(items, 1, Len(items) - 1)))

\* A variant of the ordering that keeps the pairs in insertion order.
InsertionOrder(items) == items

\* sorted(result.items())
SortedItems(items) == SortedByName(items)

\* AutoMessenger.call after self(*args, **kwargs) returned:
\* tuple(v for _, v in sorted(result.items()))
Packed(order, trace) ==
    [i \in 1..Len(order) |-> SortedItems(Items(order, trace))[i][2]]

\* The first value median() returned for every site.
Recorded(trace) ==
    [n \in DOMAIN trace \cup DOMAIN medianOut |->
        IF n \in DOMAIN medianOut THEN medianOut[n] ELSE trace[n].value]

\* The innermost invocation ends, the model run having ended with `err`
\* ("" when it returned): the plates it opened are closed and the finally
\* clauses of __call__ and median run.
Left(d, raised) ==
    /\ plates' = SubSeq(plates, 1, Len(plates) - Top.nplates)
    /\ outer_plates' = d.outer
    /\ computing_median' = MedianFinally(Top.op, computing_median)
    /\ stack' = SubSeq(stack, 1, Len(stack) - 1)
    /\ outcome' = [Ended(Top.op, Len(stack), raised,
                         IF raised = "" THEN Top.trace ELSE Empty, NoTensor)
                      EXCEPT !.reentered = Top.reentered,
                             !.order = IF raised = "" THEN Top.order ELSE <<>>,
                             !.packed = IF Top.op = "call_packed" /\ raised = ""
                                        THEN Packed(Top.order, Top.trace) ELSE <<>>]
    /\ exc' = IF Len(stack) = 1 THEN "" ELSE raised
    /\ nested' = (Len(stack) > 1 /\ raised # "")
    /\ medianOut' = IF Top.op = "median" /\ raised = "" THEN Recorded(Top.trace)
                    ELSE medianOut
    /\ UNCHANGED <<kind, amortized_plates, init_scale, locs, scales, model, created>>

\* An error of the finally clause replaces the one that was propagating.
Replaced(d, err) == IF d.err # "" THEN d.err ELSE err

Leave(err) ==
    Left(DelOuterPlates(outer_plates, err),
         Replaced(DelOuterPlates(outer_plates, err), err))

\* The model run of the innermost invocation returns.
Return ==
    /\ stack # <<>>
    /\ exc = ""
    /\ Top.nplates = 0
    /\ Leave("")

\* The exception leaves the innermost invocation.
Unwind ==
    /\ stack # <<>>
    /\ exc # ""
    /\ Leave(exc)

\* The values handed to _remove_outer_plates by a direct call.
DirectValues(event_shape) ==
    {Tensor(bs \o event_shape,
            LAMBDA idx : Rat(base + Rank(bs \o event_shape, idx), 1)) :
       bs \in BatchShapes(plates, 0), base \in 0..MaxBase}

Reduced(value, r) ==
    [Ended("_remove_outer_plates", 0, r.err, Empty,
           IF r.err = "" THEN r.value ELSE NoTensor) EXCEPT !.input = value]

\* self._remove_outer_plates(value, event_dim), called while no invocation
\* of the guide is running.
RemoveOuterPlatesOutside(value, event_dim) ==
    /\ kind # "none"
    /\ stack = <<>>
    /\ outcome' = Reduced(value, RemoveOuterPlates(value, event_dim, plates,
                                                   outer_plates, amortized_plates))
    /\ UNCHANGED <<kind, amortized_plates, init_scale, computing_median, outer_plates,
                   locs, scales, plates, stack, exc, nested, model, created, medianOut>>

\* get_posterior at any site, with anything init_loc_fn can do there.
SampleAny ==
    \E name \in SiteNames, fail \in BOOLEAN :
       \E value \in InitValues(name, plates, IF stack = <<>> THEN 0 ELSE Top.nplates) :
          Sample(name, [fail |-> fail, value |-> value])

RemoveOuterPlatesOutsideAny ==
    \E event_dim \in {0, 1} :
       \E value \in DirectValues(IF event_dim = 0 THEN <<>> ELSE <<2>>) :
          RemoveOuterPlatesOutside(value, event_dim)

ConstructAny ==
    \E cls \in {"normal", "regressive"}, scale \in InitScaleInputs,
       amortized \in SUBSET PlateNames : Construct(cls, scale, amortized)

EnterPlateAny == \E p \in PlateNames : EnterPlate(p)

Next ==
    \/ ConstructAny
    \/ EnterPlateAny
    \/ ExitPlate
    \/ Call
    \/ CallPacked
    \/ Median
    \/ SampleAny
    \/ ModelRaise
    \/ Catch
    \/ Return
    \/ Unwind
    \/ RemoveOuterPlatesOutsideAny

\* The life of a guide: construction, then any sequence of invocations.
Spec == Init /\ [][Next]_vars

\* ------------------------------------------------- first visits under plates

\* The orders in which plates can be open: no plate twice, no axis twice.
Arrangements ==
    {o \in UNION {[1..n -> PlateNames] : n \in 0..Cardinality(PlateNames)} :
        \A i, j \in DOMAIN o : i # j => Frame(o[i]).dim # Frame(o[j]).dim}

\* A guide of either class and any configuration of amortized plates, either
\* idle inside the plates its caller has opened, or in its first invocation:
\* __call__ (or median) has taken its snapshot of the caller's plates and the
\* model has opened the last `ninner` plates and visited no site yet.
FirstVisitInit ==
    \E cls \in {"normal", "regressive"}, op \in {"", "call", "median"},
       active \in Arrangements :
       \E ninner \in 0..Len(active) :
          /\ op = "median" => cls = "normal"
          /\ op = "" => ninner = 0
          /\ kind = cls
          /\ model \in PlateModels
          /\ amortized_plates \in SUBSET PlateNames
          /\ init_scale = [type |-> "float", nan |-> FALSE, v |-> Rat(1, 4)]
          /\ computing_median =
                IF cls # "normal" THEN "unset" ELSE IF op = "median" THEN "True" ELSE "False"
          /\ plates = active
          /\ outer_plates =
                IF op = "" THEN NoOuterPlates
                ELSE Snapshot(SubSeq(active, 1, Len(active) - ninner), 1)
          /\ stack = IF op = "" THEN <<>> ELSE <<[NewFrame(op) EXCEPT !.nplates = ninner]>>
          /\ locs = Empty
          /\ scales = Empty
          /\ exc = ""
          /\ nested = FALSE
          /\ outcome = NoOutcome
          /\ created = Empty
          /\ medianOut = Empty

FirstVisitNext ==
    \/ SampleAny
    \/ RemoveOuterPlatesOutsideAny

\* The first visit of a site, and direct calls of _remove_outer_plates, under
\* every arrangement of plates.
FirstVisitSpec == FirstVisitInit /\ [][FirstVisitNext]_vars

\* ----------------------------------------------------------------- claims

\* The tensor has an axis at the (negative) position dim.
HasAxis(value, dim) == -Dim(value) <= dim

\* The extent of the axis at dim; an axis the tensor does not have broadcasts
\* as an axis of extent 1.
ExtentAt(value, dim) == IF HasAxis(value, dim) THEN value.shape[Axis(value, dim)] ELSE 1

\* out is `in` with the axis at dim replaced by one entry, the mean of the axis.
IsMeanAlong(out, in, dim) ==
    /\ out.shape = [in.shape EXCEPT ![Axis(in, dim)] = 1]
    /\ \A idx \in Indices(out.shape) :
          RMul(out.data[idx], Rat(in.shape[Axis(in, dim)], 1))
             = SumAlong(in, idx, Axis(in, dim), in.shape[Axis(in, dim)])

\* out is `in` with the axis at dim, of extent size, repeated up to extent full.
IsTiledAlong(out, in, dim, size, full) ==
    /\ in.shape[Axis(in, dim)] = size
    /\ out.shape = [in.shape EXCEPT ![Axis(in, dim)] = full]
    /\ \A idx \in Indices(out.shape) :
          out.data[idx]
             = in.data[[idx EXCEPT ![Axis(in, dim)] = ((idx[Axis(in, dim)] - 1) % size) + 1]]

\* The plate was active in the caller's context when the invocation began.
InSnapshot(name, outer) == \E i \in 1..Len(outer.names) : outer.names[i] = name

\* The axis of plate i of the initialization context c.
PlateDim(c, i) == Frame(c.active[i]).dim - c.event_dim

\* C1: whenever no invocation is running the instance holds no _outer_plates
\* snapshot, whether the invocations before returned or raised; a snapshot
\* that exists was taken by the innermost running invocation.
C1_SnapshotIsCallScoped ==
    /\ stack = <<>> => outer_plates = NoOuterPlates
    /\ outer_plates.present => outer_plates.owner = Len(stack)

\* A failing invocation has ended after an earlier one created parameters.
C1_Witness ==
    /\ stack = <<>>
    /\ outcome.op = "call"
    /\ outcome.err = "ModelError"
    /\ DOMAIN locs # {}

\* C2: a stored (loc, scale) pair is never replaced or removed by any step,
\* and every distribution the guide builds uses the stored pair.
C2_StoredPairKept ==
    \A n \in DOMAIN locs :
        /\ n \in DOMAIN locs' /\ locs'[n] = locs[n]
        /\ n \in DOMAIN scales' /\ scales'[n] = scales[n]

C2_StoredPairUsed ==
    \A i \in 1..Len(stack) : \A n \in DOMAIN stack[i].trace :
        stack[i].trace[n].kind = "dist" =>
            /\ stack[i].trace[n].loc = locs[n]
            /\ stack[i].trace[n].scale = scales[n]

C2_ParamsCreatedOnce == [][C2_StoredPairKept]_vars /\ []C2_StoredPairUsed

\* A site whose pair an earlier median() call had used is visited again by a
\* later invocation.
C2_Witness ==
    /\ model.nesting = 0
    /\ stack # <<>>
    /\ \E n \in DOMAIN Top.trace \cap DOMAIN medianOut : Top.trace[n].kind = "dist"

\* C3: the iteration of _remove_outer_plates for a plate recorded in the
\* snapshot replaces the axis of that plate, when the value has it, by its mean.
C3_OuterPlateAveraged ==
    \A n \in DOMAIN created : \A i \in 1..Len(created[n].active) :
        (/\ InSnapshot(created[n].active[i], created[n].outer)
         /\ HasAxis(created[n].steps[i], PlateDim(created[n], i)))
        => IsMeanAlong(created[n].steps[i + 1], created[n].steps[i],
                       PlateDim(created[n], i))

\* C4: the iteration for a plate that is neither in the snapshot nor amortized
\* leaves the value unchanged when size = full_size and tiles the axis
\* periodically up to full_size otherwise; the stored loc has extent full_size
\* on that axis.
C4_DataPlateKeptOrTiled ==
    \A n \in DOMAIN created : \A i \in 1..Len(created[n].active) :
        (/\ ~InSnapshot(created[n].active[i], created[n].outer)
         /\ created[n].active[i] \notin amortized_plates)
        => /\ IF Frame(created[n].active[i]).size = FullSize(Frame(created[n].active[i]))
              THEN created[n].steps[i + 1] = created[n].steps[i]
              ELSE IsTiledAlong(created[n].steps[i + 1], created[n].steps[i],
                                PlateDim(created[n], i),
                                Frame(created[n].active[i]).size,
                                FullSize(Frame(created[n].active[i])))
           /\ ExtentAt(created[n].reduced, PlateDim(created[n], i))
                 = FullSize(Frame(created[n].active[i]))
           /\ ExtentAt(locs[n], PlateDim(created[n], i))
                 = FullSize(Frame(created[n].active[i]))

\* A site was first visited inside a subsampled plate of the model and a
\* second plate.
C4_Witness ==
    \E n \in DOMAIN created : \E i \in 1..Len(created[n].active) :
        /\ Len(created[n].active) = 2
        /\ ~InSnapshot(created[n].active[i], created[n].outer)
        /\ created[n].active[i] \notin amortized_plates
        /\ Frame(created[n].active[i]).size # FullSize(Frame(created[n].active[i]))

\* C5: the iteration for an amortized plate replaces the axis of the plate,
\* when the value has it, by its mean, also when the plate is subsampled; the
\* stored loc has extent 1 on that axis (the axis itself is removed by the
\* final squeeze when it is a leading one).
C5_AmortizedPlateAveraged ==
    \A n \in DOMAIN created : \A i \in 1..Len(created[n].active) :
        created[n].active[i] \in amortized_plates
        => /\ IF HasAxis(created[n].steps[i], PlateDim(created[n], i))
              THEN IsMeanAlong(created[n].steps[i + 1], created[n].steps[i],
                               PlateDim(created[n], i))
              ELSE created[n].steps[i + 1] = created[n].steps[i]
           /\ ExtentAt(locs[n], PlateDim(created[n], i)) = 1

\* A site was first visited inside an amortized subsampled plate of the model
\* that lies to the right of a plate that is kept: the stored loc keeps the
\* averaged axis, with extent 1.
C5_Witness ==
    \E n \in DOMAIN created : \E i \in 1..Len(created[n].active) :
        /\ created[n].active[i] \in amortized_plates
        /\ ~InSnapshot(created[n].active[i], created[n].outer)
        /\ Frame(created[n].active[i]).size # FullSize(Frame(created[n].active[i]))
        /\ HasAxis(locs[n], PlateDim(created[n], i))
        /\ Dim(created[n].unconstrained) = Dim(locs[n])

C8_MedianFlagIsCallScoped ==
    /\ kind = "normal" => computing_median \in {"False", "True"}
    /\ computing_median = "True" => \E i \in 1..Len(stack) : stack[i].op = "median"
    /\ (kind = "normal" /\ stack = <<>>) => computing_median = "False"
    /\ (\A i \in 1..Len(stack) : stack[i].op # "median") =>
          \A i \in 1..Len(stack) : \A n \in DOMAIN stack[i].trace :
              stack[i].trace[n].kind = "dist"
    /\ (outcome.op = "call" /\ outcome.depth = 1) =>
          \A n \in DOMAIN outcome.result : outcome.result[n].kind = "dist"

\* An invocation issued after a median() call has returned its samples.
C8_Witness ==
    /\ outcome.op = "call"
    /\ outcome.status = "returned"
    /\ DOMAIN outcome.result \cap DOMAIN medianOut # {}

\* C9: every value a median() call returns is transform(loc) of the stored
\* loc of the site, and equals the value the first median() call returned for
\* that site.
C9_MedianIsTransformOfLoc ==
    (outcome.op = "median" /\ outcome.status = "returned") =>
        \A n \in DOMAIN outcome.result :
            /\ outcome.result[n].kind = "point"
            /\ outcome.result[n].value.shape = locs[n].shape
            /\ \A idx \in Indices(locs[n].shape) :
                  outcome.result[n].value.data[idx]
                     = [locs[n].data[idx] EXCEPT
                           !.f = IF Prior(n).support = "positive" THEN "exp" ELSE "id"]
            /\ outcome.result[n].value = medianOut[n]

\* A second median() call has returned values for sites the first returned.
C9_Witness ==
    /\ outcome.op = "median"
    /\ outcome.status = "returned"
    /\ outcome.again
    /\ "a" \in DOMAIN outcome.result

\* C10: a constructor raises ValueError, having set up no state, exactly when
\* init_scale is not a float or not greater than 0 (zero, negative, NaN);
\* otherwise the guide is constructed with that init_scale.
C10_InitScaleValidated ==
    /\ outcome.op = "__init__" =>
          IF outcome.arg.type = "float" /\ ~outcome.arg.nan /\ outcome.arg.v.n > 0
          THEN outcome.status = "returned" /\ kind # "none" /\ init_scale = outcome.arg
          ELSE /\ outcome.status = "raised" /\ outcome.err = "ValueError"
               /\ kind = "none" /\ init_scale = NoScale /\ amortized_plates = {}
               /\ computing_median = "unset" /\ locs = Empty /\ scales = Empty
    /\ kind # "none" => init_scale.type = "float" /\ ~init_scale.nan /\ init_scale.v.n > 0

\* A constructor has rejected a NaN init_scale.
C10_Witness ==
    /\ outcome.op = "__init__"
    /\ outcome.status = "raised"
    /\ outcome.arg.nan
\* C11: `call` returns exactly the values of the mapping the invocation
\* produced, one per site, in ascending order of the site names, whatever the
\* order in which the model visited the sites.
C11_CallSortedByName ==
    (outcome.op = "call_packed" /\ outcome.status = "returned") =>
        /\ Len(outcome.packed) = Cardinality(DOMAIN outcome.result)
        /\ \A n \in DOMAIN outcome.result :
              \E i \in 1..Len(outcome.packed) : outcome.packed[i] = outcome.result[n]
        /\ \A i \in 1..Len(outcome.packed) : \A j \in 1..Len(outcome.packed) :
              i < j => <<outcome.packed[i].site, outcome.packed[j].site>>
                          \in {<<"a", "b">>, <<"a", "c">>, <<"b", "c">>}

\* `call` has returned two values after the model visited "b" before "a".
C11_Witness ==
    /\ outcome.op = "call_packed"
    /\ outcome.status = "returned"
    /\ outcome.order = <<"b", "a">>
    /\ Len(outcome.packed) = 2

\* C12: the stored scale of a site has the shape of its stored loc and every
\* entry is the configured init_scale; a site has a stored loc exactly when it
\* has a stored scale, and a step that creates one creates the other.
C12_PairKept ==
    /\ DOMAIN locs = DOMAIN scales
    /\ DOMAIN locs = DOMAIN created
    /\ \A n \in DOMAIN scales :
          /\ scales[n].shape = locs[n].shape
          /\ DOMAIN scales[n].data = DOMAIN locs[n].data
          /\ \A idx \in DOMAIN scales[n].data :
                scales[n].data[idx] = init_scale.v /\ scales[n].data[idx].n > 0

C12_PairMade ==
    \A n \in SiteNames :
        (n \in DOMAIN locs' /\ n \notin DOMAIN locs) =>
            /\ n \in DOMAIN scales' /\ n \notin DOMAIN scales
            /\ scales'[n].shape = locs'[n].shape
            /\ \A idx \in DOMAIN scales'[n].data : scales'[n].data[idx] = init_scale.v

C12_ScaleCreatedWithLoc == []C12_PairKept /\ [][C12_PairMade]_vars

\* An invocation has returned after creating the pair of the plate-free
\* scalar site "a", both of shape (), and the pair of the vector site "b".
C12_Witness ==
    /\ outcome.status = "returned"
    /\ outcome.order = <<"a", "b">>
    /\ created["a"].depth = 1 /\ created["b"].depth = 1
    /\ locs["a"].shape = <<>> /\ scales["a"].shape = <<>>
    /\ scales["b"].shape = <<2>>

\* The value the plate loop of an initialization context c ended with.
LastStep(c) == c.steps[Len(c.steps)]

\* out is `in` without its first k axes, which have extent 1.
IsWithoutLeading(out, in, k) ==
    /\ \A i \in 1..k : in.shape[i] = 1
    /\ out.shape = SubSeq(in.shape, k + 1, Dim(in))
    /\ \A idx \in Indices(out.shape) : out.data[idx] = in.data[[i \in 1..k |-> 1] \o idx]

\* C13 as claimed: no axis of extent 1 that an averaged plate left is in the
\* batch portion of the result, wherever the axis lies.  It is stated here
\* for the invocations made outside every plate, where each kept axis is the
\* axis of a plate of the model.
C13_NoAveragedAxisLeft ==
    \A n \in DOMAIN created : \A i \in 1..Len(created[n].active) :
        (/\ created[n].outer.present /\ created[n].outer.names = <<>>
         /\ created[n].active[i] \in amortized_plates
         /\ HasAxis(created[n].steps[i], PlateDim(created[n], i)))
        => \/ ~HasAxis(created[n].reduced, PlateDim(created[n], i))
           \/ ExtentAt(created[n].reduced, PlateDim(created[n], i)) # 1

\* C13 as amended: the result is the value the plate loop ended with, without
\* its leading batch axes of extent 1, up to the first batch axis of another
\* extent; the trailing event_dim axes are the input's event axes, and the
\* axes to the right of a kept batch axis stay, also those of extent 1.
C13_LeadingSingletonsRemoved ==
    \A n \in DOMAIN created :
        /\ \E k \in 0..(Dim(LastStep(created[n])) - created[n].event_dim) :
              /\ IsWithoutLeading(created[n].reduced, LastStep(created[n]), k)
              /\ k < Dim(LastStep(created[n])) - created[n].event_dim
                    => LastStep(created[n]).shape[k + 1] # 1
        /\ Dim(created[n].reduced) >= created[n].event_dim
        /\ \A j \in 1..created[n].event_dim :
              created[n].reduced.shape[Dim(created[n].reduced) + 1 - j]
                 = created[n].unconstrained.shape[Dim(created[n].unconstrained) + 1 - j]

\* Two leading axes of extent 1 were removed from a value with an event axis.
C13_Witness ==
    \E n \in DOMAIN created :
        /\ created[n].event_dim = 1
        /\ Dim(LastStep(created[n])) = 3
        /\ Dim(created[n].reduced) = 1

\* C14: when get_posterior raises at a site (no bijection for the support,
\* the initialization strategy raises, or the plate reduction raises), the
\* step creates neither locs.<name> nor scales.<name> and changes no stored
\* pair; the error then propagates: no site is visited and no parameter
\* changes until the invocation has ended, raising, with the snapshot cleared
\* (`nested` tells that the error has already left the invocation it rose in).
C14_NothingCreated ==
    (outcome.op = "get_posterior" /\ outcome.status = "raised") =>
        /\ exc = outcome.err
        /\ outcome.site \notin DOMAIN locs
        /\ outcome.site \notin DOMAIN scales
        /\ outcome.site \notin DOMAIN Top.trace

C14_FailingStep ==
    (outcome'.op = "get_posterior" /\ outcome'.status = "raised") =>
        locs' = locs /\ scales' = scales

C14_Propagates ==
    exc # "" =>
        /\ locs' = locs /\ scales' = scales
        /\ \A i \in 1..Len(stack') : i <= Len(stack) /\ stack'[i].trace = stack[i].trace
        /\ ~nested =>
              /\ stack' = SubSeq(stack, 1, Len(stack) - 1)
              /\ ~outer_plates'.present
              /\ outcome'.depth = Len(stack)
              /\ outcome'.status = "raised"
              /\ ~outcome'.reentered => outcome'.err = exc

C14_FailureLeavesNoParams ==
    []C14_NothingCreated /\ [][C14_FailingStep]_vars /\ [][C14_Propagates]_vars

\* An invocation has ended with the error of a site without a bijection,
\* after it created the pairs of two sites it visited before.
C14_Witness ==
    /\ stack = <<>>
    /\ outcome.status = "raised"
    /\ outcome.err = "NotImplementedError"
    /\ DOMAIN locs = {"a", "b"}
    /\ created["a"].depth = 1 /\ created["b"].depth = 1
    /\ medianOut = Empty

\* The scalar y is the scalar x times (1 - s), for rationals n/d.
IsTimesOneMinus(y, x, s) ==
    /\ y.f = x.f
    /\ y.n * x.d * s.d = x.n * (s.d - s.n) * y.d

\* C15: the stored loc of a site of an autoregressive guide is the
\* plate-reduced unconstrained initial value times (1 - init_scale), that of a
\* mean-field guide is the plate-reduced value itself; the stored scale is
\* filled with init_scale; this holds after any number of later visits.
C15_AutoRegressiveInitLoc ==
    \A n \in DOMAIN created :
        /\ locs[n].shape = created[n].reduced.shape
        /\ scales[n].shape = created[n].reduced.shape
        /\ \A idx \in Indices(created[n].reduced.shape) :
              /\ scales[n].data[idx] = init_scale.v
              /\ IF kind = "regressive"
                 THEN IsTimesOneMinus(locs[n].data[idx], created[n].reduced.data[idx],
                                      init_scale.v)
                 ELSE locs[n].data[idx] = created[n].reduced.data[idx]

\* An invocation of an autoregressive guide has returned the distribution of
\* a site whose pair an earlier, nested invocation created; the stored loc
\* differs from the reduced value.
C15_Witness ==
    /\ kind = "regressive"
    /\ outcome.status = "returned"
    /\ outcome.op = "call"
    /\ "a" \in DOMAIN outcome.result
    /\ outcome.result["a"].loc = locs["a"]
    /\ locs["a"] # created["a"].reduced
    /\ created["a"].depth = 2
    /\ outcome.depth = 1

\* C16: get_posterior in median mode, at a site without stored parameters,
\* creates the pair a normal invocation would create (loc the plate-reduced
\* unconstrained initial value, scale filled with init_scale) and substitutes
\* transform(loc); at a site with stored parameters it leaves locs and scales
\* unchanged.
C16_MedianVisit ==
    (/\ outcome.op = "get_posterior" /\ outcome.status = "returned"
     /\ computing_median = "True") =>
        /\ outcome.site \in DOMAIN locs
        /\ outcome.site \in DOMAIN scales
        /\ Top.trace[outcome.site].kind = "point"
        /\ Top.trace[outcome.site].value.shape = locs[outcome.site].shape
        /\ \A idx \in Indices(locs[outcome.site].shape) :
              Top.trace[outcome.site].value.data[idx]
                 = [locs[outcome.site].data[idx] EXCEPT
                       !.f = IF Prior(outcome.site).support = "positive"
                             THEN "exp" ELSE "id"]
        /\ outcome.first =>
              /\ created[outcome.site].active = plates
              /\ created[outcome.site].depth = Len(stack)
              /\ locs[outcome.site]
                    = RemoveOuterPlates(created[outcome.site].unconstrained,
                                        created[outcome.site].event_dim, plates,
                                        outer_plates, amortized_plates).value
              /\ scales[outcome.site].shape = locs[outcome.site].shape
              /\ \A idx \in Indices(locs[outcome.site].shape) :
                    scales[outcome.site].data[idx] = init_scale.v

C16_MedianStep ==
    (/\ outcome'.op = "get_posterior" /\ outcome'.status = "returned"
     /\ computing_median = "True") =>
        /\ DOMAIN locs' = DOMAIN locs \cup {outcome'.site}
        /\ DOMAIN scales' = DOMAIN scales \cup {outcome'.site}
        /\ outcome'.first = (outcome'.site \notin DOMAIN locs)
        /\ \A n \in DOMAIN locs : locs'[n] = locs[n] /\ scales'[n] = scales[n]

C16_MedianCreatesLazily == []C16_MedianVisit /\ [][C16_MedianStep]_vars

\* A median() call made inside a plate has created the pair of a site.
C16_Witness ==
    /\ outcome.op = "get_posterior"
    /\ outcome.status = "returned"
    /\ outcome.first
    /\ computing_median = "True"
    /\ Top.op = "median"
    /\ plates # <<>>
    /\ Dim(locs[outcome.site]) = 1
====
